---------------------------- MODULE Spec2Model ----------------------------
(***************************************************************************)
(* Model of the Homework-Organizer document scanning pipeline:             *)
(*   src/src/utils/ImageProcessor.js   (rectify, adaptive lighting,        *)
(*                                      enhance, processDocument)          *)
(*   src/unnamed/part_000              (the document-mode variant)         *)
(*   src/src/utils/ZipService.js       (an older copy of the pipeline)     *)
(*   src/src/components/CaptureView.jsx (the caller)                       *)
(*                                                                         *)
(* Numbers the code computes in floating point are modelled as exact       *)
(* rationals <<n, d>> (d > 0, lowest terms).  Channel values are stored    *)
(* into the Uint8ClampedArray of an ImageData, which clamps to [0,255]     *)
(* and rounds to the nearest integer, ties to even.                        *)
(***************************************************************************)
EXTENDS Integers, Sequences, FiniteSets, TLC

VARIABLES
    \* --- the stage functions applied to one pixel buffer ---
    inBuf,      \* the buffer handed to a stage
    outBuf,     \* the buffer the stage leaves behind
    assigned,   \* per pixel, the three numbers the stage assigned to the data array
    locals,     \* per pixel, the local quantities the stage computed for it
    applied,    \* which stage ran, and with which parameters
    rect,       \* what applyPerspectiveCorrection returned or threw
    \* --- CaptureView and the processDocument invocations ---
    photos,         \* useState([]): processed pages
    pendingPhoto,   \* useState(null): file waiting in the crop editor
    isProcessing,   \* useState(false)
    isZipping,      \* useState(false)
    isPdfing,       \* useState(false)
    confirm,        \* the handleCropConfirm call in flight
    calls,          \* processDocument invocations, per caller
    last,           \* outcome of the last finished handleCropConfirm
    heap,           \* the canvas elements held by invocations in flight
    \* --- DocumentCropEditor and getDefaultCorners ---
    cornerCall,     \* the last call of getDefaultCorners and what it returned
    editor          \* the state of a mounted DocumentCropEditor

stageVars == <<inBuf, outBuf, assigned, locals, applied, rect>>
viewVars == <<photos, pendingPhoto, isProcessing, isZipping, isPdfing, confirm, calls, last, heap>>
editorVars == <<cornerCall, editor>>
vars == <<inBuf, outBuf, assigned, locals, applied, rect, photos, pendingPhoto, isProcessing,
          isZipping, isPdfing, confirm, calls, last, heap, cornerCall, editor>>

-----------------------------------------------------------------------------
(* Exact rational arithmetic.                                              *)

Abs(i) == IF i < 0 THEN -i ELSE i

RECURSIVE Gcd(_, _)
Gcd(a, b) == IF b = 0 THEN a ELSE Gcd(b, a % b)

Rat(n, d) ==
    LET g == Gcd(Abs(n), Abs(d))
        s == IF d < 0 THEN -1 ELSE 1
    IN  <<(s * n) \div g, (s * d) \div g>>

RInt(i) == <<i, 1>>
RAdd(p, q) == Rat(p[1] * q[2] + q[1] * p[2], p[2] * q[2])
RSub(p, q) == Rat(p[1] * q[2] - q[1] * p[2], p[2] * q[2])
RMul(p, q) == Rat(p[1] * q[1], p[2] * q[2])
RDiv(p, q) == Rat(p[1] * q[2], p[2] * q[1])
RLt(p, q) == p[1] * q[2] < q[1] * p[2]
RLe(p, q) == p[1] * q[2] <= q[1] * p[2]
RMin(p, q) == IF RLt(q, p) THEN q ELSE p
RMax(p, q) == IF RLt(p, q) THEN q ELSE p
\* Math.floor and Math.ceil (\div rounds toward minus infinity)
RFloor(p) == p[1] \div p[2]
RCeil(p) == -((-p[1]) \div p[2])
\* Math.round: nearest integer, ties toward plus infinity
RRound(p) == (2 * p[1] + p[2]) \div (2 * p[2])

\* The conversion a Uint8ClampedArray applies to a stored number:
\* clamp to [0,255], round to nearest, ties to even.
ToUint8Clamp(p) ==
    IF RLe(p, RInt(0)) THEN 0
    ELSE IF RLe(RInt(255), p) THEN 255
    ELSE LET f == RFloor(p)
             twiceFrac == 2 * (p[1] - f * p[2])   \* compared with p[2]
         IN  IF twiceFrac < p[2] THEN f
             ELSE IF twiceFrac > p[2] THEN f + 1
             ELSE IF f % 2 = 0 THEN f ELSE f + 1

InByteRange(p) == RLe(RInt(0), p) /\ RLe(p, RInt(255))

-----------------------------------------------------------------------------
(* Pixel buffers: [w, h, data], data a row-major sequence of <<r,g,b,a>>.  *)

MaxPixels == 3

Palette ==
    { <<0, 0, 0, 255>>, <<10, 20, 30, 255>>,
      <<200, 120, 40, 128>>, <<255, 255, 255, 255>> }

Dims == { d \in (1..MaxPixels) \X (1..MaxPixels) : d[1] * d[2] <= MaxPixels }

Buffers ==
    UNION { { [w |-> d[1], h |-> d[2], data |-> s] :
                s \in [1..(d[1] * d[2]) -> Palette] } : d \in Dims }

NoBuf == [w |-> 0, h |-> 0, data |-> <<>>]

PixelAt(buf, x, y) == buf.data[y * buf.w + x + 1]


RECURSIVE RSumSeq(_)
RSumSeq(s) == IF s = <<>> THEN RInt(0) ELSE RAdd(Head(s), RSumSeq(Tail(s)))

\* (data[idx] + data[idx+1] + data[idx+2]) / 3
Brightness(p) == Rat(p[1] + p[2] + p[3], 3)

\* the store writing all four bytes of a pixel, alpha as opaque (C18)
StoreChannelsOpaque(buf, chans) ==
    [buf EXCEPT !.data =
        [i \in 1..Len(buf.data) |->
            <<ToUint8Clamp(chans[i][1]), ToUint8Clamp(chans[i][2]),
              ToUint8Clamp(chans[i][3]), 255>>]]

\* A stage computes, for every pixel, the three numbers it assigns to
\* data[i], data[i+1], data[i+2]; the assignment itself converts them.
StoreChannels(buf, chans) ==
    [buf EXCEPT !.data =
        [i \in 1..Len(buf.data) |->
            <<ToUint8Clamp(chans[i][1]), ToUint8Clamp(chans[i][2]),
              ToUint8Clamp(chans[i][3]), buf.data[i][4]>>]]

-----------------------------------------------------------------------------
(* enhanceDocument, src/src/utils/ImageProcessor.js (and part_000).        *)

\* Math.max(0, Math.min(255, v))
EnhanceClamp(v) == RMax(RInt(0), RMin(RInt(255), v))

\* the same arithmetic with the contrast centred on 127 instead: with it
\* contrast 1 and brightness 0 no longer give back the value (C9)
EnhanceValueOffCentre(v, contrast, brightness) ==
    EnhanceClamp(RAdd(RAdd(RMul(RSub(v, RInt(128)), contrast), RInt(127)), brightness))

\* one channel: contrast centred on 128, then brightness, then the clamp
EnhanceValue(v, contrast, brightness) ==
    EnhanceClamp(RAdd(RAdd(RMul(RSub(v, RInt(128)), contrast), RInt(128)), brightness))

\* luma weights that do not add up to 1 (0.144 for 0.114): a gray pixel is
\* then not a fixed point of the conversion (C12)
LumaOverweight(p) == Rat(299 * p[1] + 587 * p[2] + 144 * p[3], 1000)

\* 0.299 * r + 0.587 * g + 0.114 * b
Luma(p) == Rat(299 * p[1] + 587 * p[2] + 114 * p[3], 1000)

\* the grayscale conversion assigned to r only, g and b keeping their own
\* values (C11)
EnhancePixelRedOnly(p, contrast, brightness, grayscale) ==
    LET r == IF grayscale THEN Luma(p) ELSE RInt(p[1])
    IN  <<EnhanceValue(r, contrast, brightness),
          EnhanceValue(RInt(p[2]), contrast, brightness),
          EnhanceValue(RInt(p[3]), contrast, brightness)>>

EnhancePixel(p, contrast, brightness, grayscale) ==
    LET r == IF grayscale THEN Luma(p) ELSE RInt(p[1])
        g == IF grayscale THEN Luma(p) ELSE RInt(p[2])
        b == IF grayscale THEN Luma(p) ELSE RInt(p[3])
    IN  <<EnhanceValue(r, contrast, brightness),
          EnhanceValue(g, contrast, brightness),
          EnhanceValue(b, contrast, brightness)>>

EnhanceChannels(buf, contrast, brightness, grayscale) ==
    [i \in 1..Len(buf.data) |-> EnhancePixel(buf.data[i], contrast, brightness, grayscale)]

enhanceDocument(buf, contrast, brightness, grayscale) ==
    StoreChannels(buf, EnhanceChannels(buf, contrast, brightness, grayscale))

(* enhanceDocument, the copy in src/src/utils/ZipService.js: the brightness *)
(* added is shifted by 0.3 * (128 - average brightness of the whole image). *)

ZipAvgBrightness(buf) ==
    RDiv(RSumSeq([i \in 1..Len(buf.data) |-> Brightness(buf.data[i])]),
         RInt(Len(buf.data)))

ZipAdaptiveBrightness(buf, brightness) ==
    RAdd(brightness, RMul(RSub(RInt(128), ZipAvgBrightness(buf)), Rat(3, 10)))

ZipEnhanceChannels(buf, contrast, brightness, grayscale) ==
    LET adaptiveBrightness == ZipAdaptiveBrightness(buf, brightness)
    IN  [i \in 1..Len(buf.data) |->
            EnhancePixel(buf.data[i], contrast, adaptiveBrightness, grayscale)]

enhanceDocumentZip(buf, contrast, brightness, grayscale) ==
    StoreChannels(buf, ZipEnhanceChannels(buf, contrast, brightness, grayscale))

-----------------------------------------------------------------------------
(* The block grid shared by the two normalizers.                           *)

CeilDiv(a, b) == -((-a) \div b)
BlocksX(buf, blockSize) == CeilDiv(buf.w, blockSize)
BlocksY(buf, blockSize) == CeilDiv(buf.h, blockSize)

\* indices (1-based, into buf.data) of the pixels of block (bx, by)
BlockPixels(buf, blockSize, bx, by) ==
    { i \in 1..Len(buf.data) :
        /\ ((i - 1) % buf.w) \div blockSize = bx
        /\ ((i - 1) \div buf.w) \div blockSize = by }

\* the cell with the weights fx - bx0 and fy - by0 taken as they are, without
\* Math.max(0, Math.min(1, .)) (C26)
CellUnclampedWeights(buf, blockSize, x, y) ==
    LET fx == RSub(Rat(x, blockSize), Rat(1, 2))
        fy == RSub(Rat(y, blockSize), Rat(1, 2))
        bx0 == IF RFloor(fx) > 0 THEN RFloor(fx) ELSE 0
        by0 == IF RFloor(fy) > 0 THEN RFloor(fy) ELSE 0
        bx1 == IF bx0 + 1 < BlocksX(buf, blockSize) - 1 THEN bx0 + 1
               ELSE BlocksX(buf, blockSize) - 1
        by1 == IF by0 + 1 < BlocksY(buf, blockSize) - 1 THEN by0 + 1
               ELSE BlocksY(buf, blockSize) - 1
    IN  [bx0 |-> bx0, by0 |-> by0, bx1 |-> bx1, by1 |-> by1,
         tx |-> RSub(fx, RInt(bx0)), ty |-> RSub(fy, RInt(by0))]

\* the interpolation cell of pixel (x, y): indices and weights
Cell(buf, blockSize, x, y) ==
    LET fx == RSub(Rat(x, blockSize), Rat(1, 2))
        fy == RSub(Rat(y, blockSize), Rat(1, 2))
        bx0 == IF RFloor(fx) > 0 THEN RFloor(fx) ELSE 0
        by0 == IF RFloor(fy) > 0 THEN RFloor(fy) ELSE 0
        bx1 == IF bx0 + 1 < BlocksX(buf, blockSize) - 1 THEN bx0 + 1
               ELSE BlocksX(buf, blockSize) - 1
        by1 == IF by0 + 1 < BlocksY(buf, blockSize) - 1 THEN by0 + 1
               ELSE BlocksY(buf, blockSize) - 1
    IN  [bx0 |-> bx0, by0 |-> by0, bx1 |-> bx1, by1 |-> by1,
         tx |-> RMax(RInt(0), RMin(RInt(1), RSub(fx, RInt(bx0)))),
         ty |-> RMax(RInt(0), RMin(RInt(1), RSub(fy, RInt(by0))))]

\* the four grid values the interpolation reads for a cell
CellValues(grid, c) ==
    << grid[<<c.bx0, c.by0>>], grid[<<c.bx1, c.by0>>],
       grid[<<c.bx0, c.by1>>], grid[<<c.bx1, c.by1>>] >>

\* bilinear interpolation of a grid (a function on <<bx, by>>) over a cell
Bilinear(grid, c) ==
    LET one == RInt(1)
    IN  RAdd(RAdd(RMul(grid[<<c.bx0, c.by0>>], RMul(RSub(one, c.tx), RSub(one, c.ty))),
                  RMul(grid[<<c.bx1, c.by0>>], RMul(c.tx, RSub(one, c.ty)))),
             RAdd(RMul(grid[<<c.bx0, c.by1>>], RMul(RSub(one, c.tx), c.ty)),
                  RMul(grid[<<c.bx1, c.by1>>], RMul(c.tx, c.ty))))

GridIndex(buf, blockSize) ==
    (0..(BlocksX(buf, blockSize) - 1)) \X (0..(BlocksY(buf, blockSize) - 1))

-----------------------------------------------------------------------------
(* adaptiveLightingCorrection, src/src/utils/ImageProcessor.js.            *)

RECURSIVE BrightnessSum(_, _)
BrightnessSum(buf, idxs) ==
    IF idxs = {} THEN RInt(0)
    ELSE LET i == CHOOSE j \in idxs : TRUE
         IN  RAdd(Brightness(buf.data[i]), BrightnessSum(buf, idxs \ {i}))

\* the block sums divided by the size of a full block instead of by the
\* number of pixels counted: partial blocks come out darker (C14)
BlockMeanFullBlock(buf, blockSize) ==
    [b \in GridIndex(buf, blockSize) |->
        RDiv(BrightnessSum(buf, BlockPixels(buf, blockSize, b[1], b[2])),
             RInt(blockSize * blockSize))]

\* blockBrightness[] after the averaging loop
BlockMean(buf, blockSize) ==
    [b \in GridIndex(buf, blockSize) |->
        LET px == BlockPixels(buf, blockSize, b[1], b[2])
        IN  IF Cardinality(px) > 0
            THEN RDiv(BrightnessSum(buf, px), RInt(Cardinality(px)))
            ELSE RInt(0)]

RECURSIVE GridSum(_, _)
GridSum(grid, idxs) ==
    IF idxs = {} THEN RInt(0)
    ELSE LET b == CHOOSE c \in idxs : TRUE
         IN  RAdd(grid[b], GridSum(grid, idxs \ {b}))

\* globalBrightness, the target
GlobalBrightness(buf, blockSize) ==
    RDiv(GridSum(BlockMean(buf, blockSize), GridIndex(buf, blockSize)),
         RInt(Cardinality(GridIndex(buf, blockSize))))

\* the factor left unlimited (C17)
LimitFactorOff(f) == f

\* Math.max(0.5, Math.min(2.0, f))
LimitFactor(f) == RMax(Rat(1, 2), RMin(RInt(2), f))

\* the factor without the blend toward 1 by strength (C13)
CorrectionFactorUnblended(target, localBrightness, strength) ==
    IF RLt(RInt(0), localBrightness)
    THEN LimitFactor(RDiv(target, localBrightness))
    ELSE RInt(1)

CorrectionFactor(target, localBrightness, strength) ==
    IF RLt(RInt(0), localBrightness)
    THEN LimitFactor(RAdd(RInt(1),
            RMul(RSub(RDiv(target, localBrightness), RInt(1)), strength)))
    ELSE RInt(1)

\* the correction without its Math.min: a brightened channel can pass 255 (C3)
AdaptiveValueNoMin(v, factor) == RMul(RInt(v), factor)

\* Math.min(255, data[idx] * correctionFactor)
AdaptiveValue(v, factor) == RMin(RInt(255), RMul(RInt(v), factor))

LocalBrightness(buf, blockSize, i) ==
    Bilinear(BlockMean(buf, blockSize),
             Cell(buf, blockSize, (i - 1) % buf.w, (i - 1) \div buf.w))

PixelFactor(buf, blockSize, strength, i) ==
    CorrectionFactor(GlobalBrightness(buf, blockSize),
                     LocalBrightness(buf, blockSize, i), strength)

AdaptiveChannels(buf, blockSize, strength) ==
    LET means == BlockMean(buf, blockSize)
        target == RDiv(GridSum(means, GridIndex(buf, blockSize)),
                       RInt(Cardinality(GridIndex(buf, blockSize))))
    IN  [i \in 1..Len(buf.data) |->
            LET c == Cell(buf, blockSize, (i - 1) % buf.w, (i - 1) \div buf.w)
                f == CorrectionFactor(target, Bilinear(means, c), strength)
                p == buf.data[i]
            IN  <<AdaptiveValue(p[1], f), AdaptiveValue(p[2], f), AdaptiveValue(p[3], f)>>]

\* what the correction loop computed for each pixel: the target, the
\* interpolated local brightness and the factor it multiplied with
AdaptiveLocals(buf, blockSize, strength) ==
    LET means == BlockMean(buf, blockSize)
        target == RDiv(GridSum(means, GridIndex(buf, blockSize)),
                       RInt(Cardinality(GridIndex(buf, blockSize))))
    IN  [i \in 1..Len(buf.data) |->
            LET c == Cell(buf, blockSize, (i - 1) % buf.w, (i - 1) \div buf.w)
                localBrightness == Bilinear(means, c)
            IN  [target |-> target, localBrightness |-> localBrightness,
                 factor |-> CorrectionFactor(target, localBrightness, strength),
                 cell |-> c, read |-> << CellValues(means, c) >>,
                 estimate |-> << localBrightness >>]]

adaptiveLightingCorrection(buf, blockSize, strength) ==
    StoreChannels(buf, AdaptiveChannels(buf, blockSize, strength))

-----------------------------------------------------------------------------
(* applyDocumentMode, src/unnamed/part_000.                                *)

RECURSIVE BrightnessMin(_, _, _)
BrightnessMin(buf, idxs, acc) ==
    IF idxs = {} THEN acc
    ELSE LET i == CHOOSE j \in idxs : TRUE
         IN  BrightnessMin(buf, idxs \ {i}, RMin(acc, Brightness(buf.data[i])))

RECURSIVE BrightnessMax(_, _, _)
BrightnessMax(buf, idxs, acc) ==
    IF idxs = {} THEN acc
    ELSE LET i == CHOOSE j \in idxs : TRUE
         IN  BrightnessMax(buf, idxs \ {i}, RMax(acc, Brightness(buf.data[i])))

\* blockMin[] (filled with 255) and blockMax[] (filled with 0) after the first pass
BlockMin(buf, blockSize) ==
    [b \in GridIndex(buf, blockSize) |->
        BrightnessMin(buf, BlockPixels(buf, blockSize, b[1], b[2]), RInt(255))]

BlockMax(buf, blockSize) ==
    [b \in GridIndex(buf, blockSize) |->
        BrightnessMax(buf, BlockPixels(buf, blockSize, b[1], b[2]), RInt(0))]

RangeThreshold == 20

\* the ink branch stretched to 0-255 instead of 0-215 (C16)
DocumentValueInkFullRange(v, localMin, localMax, whitePoint) ==
    LET range == RSub(localMax, localMin)
        threshold == RAdd(localMin, RMul(range, whitePoint))
        normalized == RDiv(RSub(RInt(v), localMin), range)
        paperRatio == RDiv(RSub(RInt(v), threshold),
                           RAdd(RSub(localMax, threshold), RInt(1)))
        adjusted == IF RLt(threshold, RInt(v))
                    THEN RSub(RInt(255), RMul(RSub(RInt(1), paperRatio), RInt(40)))
                    ELSE RMul(normalized, RInt(255))
    IN  RMax(RInt(0), RMin(RInt(255), adjusted))

\* one channel of a pixel whose local range exceeds RangeThreshold
DocumentValue(v, localMin, localMax, whitePoint) ==
    LET range == RSub(localMax, localMin)
        threshold == RAdd(localMin, RMul(range, whitePoint))
        normalized == RDiv(RSub(RInt(v), localMin), range)
        paperRatio == RDiv(RSub(RInt(v), threshold),
                           RAdd(RSub(localMax, threshold), RInt(1)))
        adjusted == IF RLt(threshold, RInt(v))
                    THEN RSub(RInt(255), RMul(RSub(RInt(1), paperRatio), RInt(40)))
                    ELSE RMul(normalized, RInt(215))
    IN  RMax(RInt(0), RMin(RInt(255), adjusted))

DocumentChannels(buf, blockSize, whitePoint) ==
    LET mins == BlockMin(buf, blockSize)
        maxs == BlockMax(buf, blockSize)
    IN  [i \in 1..Len(buf.data) |->
            LET c == Cell(buf, blockSize, (i - 1) % buf.w, (i - 1) \div buf.w)
                localMin == Bilinear(mins, c)
                localMax == Bilinear(maxs, c)
                p == buf.data[i]
            IN  IF RLt(RInt(RangeThreshold), RSub(localMax, localMin))
                THEN <<DocumentValue(p[1], localMin, localMax, whitePoint),
                       DocumentValue(p[2], localMin, localMax, whitePoint),
                       DocumentValue(p[3], localMin, localMax, whitePoint)>>
                ELSE <<RInt(p[1]), RInt(p[2]), RInt(p[3])>>]

\* what the second pass computed for each pixel: the interpolated local
\* minimum and maximum, the threshold, and the range of the pixel's own block
DocumentLocals(buf, blockSize, whitePoint) ==
    LET mins == BlockMin(buf, blockSize)
        maxs == BlockMax(buf, blockSize)
    IN  [i \in 1..Len(buf.data) |->
            LET x == (i - 1) % buf.w
                y == (i - 1) \div buf.w
                c == Cell(buf, blockSize, x, y)
                localMin == Bilinear(mins, c)
                localMax == Bilinear(maxs, c)
                own == <<x \div blockSize, y \div blockSize>>
            IN  [localMin |-> localMin, localMax |-> localMax,
                 threshold |-> RAdd(localMin, RMul(RSub(localMax, localMin), whitePoint)),
                 blockRange |-> RSub(maxs[own], mins[own]),
                 cell |-> c, read |-> << CellValues(mins, c), CellValues(maxs, c) >>,
                 estimate |-> << localMin, localMax >>]]

applyDocumentMode(buf, blockSize, whitePoint) ==
    StoreChannels(buf, DocumentChannels(buf, blockSize, whitePoint))

-----------------------------------------------------------------------------
(* applyPerspectiveCorrection, src/src/utils/ImageProcessor.js.            *)

\* Math.round(Math.hypot(dx, dy)) for integer dx, dy: the k with
\* (k - 1/2)^2 <= dx^2 + dy^2 < (k + 1/2)^2
RoundHypot(dx, dy) ==
    LET n == dx * dx + dy * dy
    IN  CHOOSE k \in 0..(n + 1) :
            /\ (k = 0 \/ (2 * k - 1) * (2 * k - 1) <= 4 * n)
            /\ 4 * n < (2 * k + 1) * (2 * k + 1)

Max2(a, b) == IF a < b THEN b ELSE a

\* tempWidth and tempHeight (Math.round is monotone, so the round of the
\* larger edge is the larger of the rounds)
TempWidth(c) ==
    Max2(RoundHypot(c[2].x - c[1].x, c[2].y - c[1].y),
         RoundHypot(c[3].x - c[4].x, c[3].y - c[4].y))
TempHeight(c) ==
    Max2(RoundHypot(c[4].x - c[1].x, c[4].y - c[1].y),
         RoundHypot(c[3].x - c[2].x, c[3].y - c[2].y))

\* the same interpolation taken at the pixel centres, u = (x + 1/2)/tw and
\* v = (y + 1/2)/th: the full rectangle is then sampled half a pixel off (C21)
MapCoordCentred(tl, tr, br, bl, x, y, tw, th) ==
    Rat((2 * tw - 2 * x - 1) * (2 * th - 2 * y - 1) * tl
            + (2 * x + 1) * (2 * th - 2 * y - 1) * tr
            + (2 * x + 1) * (2 * y + 1) * br
            + (2 * tw - 2 * x - 1) * (2 * y + 1) * bl,
        4 * tw * th)

\* (1-u)(1-v) tl + u(1-v) tr + u v br + (1-u) v bl, with u = x/tw, v = y/th
MapCoord(tl, tr, br, bl, x, y, tw, th) ==
    Rat((tw - x) * (th - y) * tl + x * (th - y) * tr + x * y * br + (tw - x) * y * bl,
        tw * th)

SourceX(c, x, y, tw, th) == RRound(MapCoord(c[1].x, c[2].x, c[3].x, c[4].x, x, y, tw, th))
SourceY(c, x, y, tw, th) == RRound(MapCoord(c[1].y, c[2].y, c[3].y, c[4].y, x, y, tw, th))

\* a bounds check that lets the coordinate one past the last column and row
\* through (C19)
SampleInBoundsOffByOne(src, sx, sy) == sx >= 0 /\ sx <= src.w /\ sy >= 0 /\ sy <= src.h

\* the bounds check guarding the copy
SampleInBounds(src, sx, sy) == sx >= 0 /\ sx < src.w /\ sy >= 0 /\ sy < src.h

ZeroPixel == <<0, 0, 0, 0>>

\* srcData.data[srcIdx .. srcIdx + 3] with srcIdx = (sy * width + sx) * 4: a
\* typed array read outside its length gives undefined, which is stored as 0
SourceRead(src, sx, sy) ==
    IF sy * src.w + sx \in 0..(Len(src.data) - 1) THEN PixelAt(src, sx, sy) ELSE ZeroPixel

\* outData after the mapping loop (createImageData starts it all zero)
TempBuffer(src, c) ==
    LET tw == TempWidth(c)
        th == TempHeight(c)
    IN  [w |-> tw, h |-> th,
         data |-> [i \in 1..(tw * th) |->
            LET x == (i - 1) % tw
                y == (i - 1) \div tw
                sx == SourceX(c, x, y, tw, th)
                sy == SourceY(c, x, y, tw, th)
            IN  IF SampleInBounds(src, sx, sy) THEN SourceRead(src, sx, sy) ELSE ZeroPixel]]

\* what the mapping loop computed for each pixel of the intermediate buffer:
\* the rounded source coordinate, whether the copy was made, and the index
\* read then; nothing when the function threw before the loop
RectifyLocals(src, c) ==
    IF Len(c) < 4 THEN <<>>
    ELSE LET tw == TempWidth(c)
             th == TempHeight(c)
         IN  [i \in 1..(tw * th) |->
                LET sx == SourceX(c, (i - 1) % tw, (i - 1) \div tw, tw, th)
                    sy == SourceY(c, (i - 1) % tw, (i - 1) \div tw, tw, th)
                IN  [sx |-> sx, sy |-> sy, copied |-> SampleInBounds(src, sx, sy),
                     srcIdx |-> (sy * src.w + sx) * 4]]

\* The canvas the function returns.  The final drawImage resamples the
\* intermediate buffer with the browser's own filter, so the returned canvas
\* is described by its size and by the intermediate buffer it was drawn from.
RectifyCanvas(outputWidth, outputHeight) == [w |-> outputWidth, h |-> outputHeight]

\* the function returning the intermediate canvas instead of scaling it to
\* the output canvas: the returned size is then that of the quadrilateral (C2)
applyPerspectiveCorrectionUnscaled(src, c, outputWidth, outputHeight) ==
    IF Len(c) < 4
    THEN [threw |-> "TypeError", created |-> 1, canvas |-> [w |-> 0, h |-> 0], temp |-> NoBuf]
    ELSE IF TempWidth(c) = 0 \/ TempHeight(c) = 0
    THEN [threw |-> "IndexSizeError", created |-> 3, canvas |-> [w |-> 0, h |-> 0], temp |-> NoBuf]
    ELSE [threw |-> "none", created |-> 2,
          canvas |-> [w |-> TempWidth(c), h |-> TempHeight(c)],
          temp |-> TempBuffer(src, c)]

applyPerspectiveCorrection(src, c, outputWidth, outputHeight) ==
    IF Len(c) < 4
    THEN \* tl, tr, br or bl is undefined: reading .x of it throws,
         \* after the output canvas has been created
         [threw |-> "TypeError", created |-> 1, canvas |-> [w |-> 0, h |-> 0], temp |-> NoBuf]
    ELSE IF TempWidth(c) = 0 \/ TempHeight(c) = 0
    THEN \* createImageData(0, h) or (w, 0) throws IndexSizeError
         [threw |-> "IndexSizeError", created |-> 3, canvas |-> [w |-> 0, h |-> 0], temp |-> NoBuf]
    ELSE [threw |-> "none", created |-> 3,
          canvas |-> RectifyCanvas(outputWidth, outputHeight),
          temp |-> TempBuffer(src, c)]

-----------------------------------------------------------------------------
(* The stages applied to bounded inputs.                                   *)

Contrasts == { RInt(1), Rat(7, 5), Rat(3, 2) }           \* 1, 1.4, 1.5
Brightnesses == { RInt(-255), RInt(0), RInt(20) }
BlockSizes == { 1, 2 }
Strengths == { RInt(0), Rat(1, 2), Rat(9, 10), RInt(1) }  \* strength in [0,1]
WhitePoints == { RInt(0), Rat(1, 2), Rat(17, 20), RInt(1) } \* whitePoint in [0,1]

NoStage ==
    [fn |-> "none", contrast |-> RInt(1), brightness |-> RInt(0), grayscale |-> FALSE,
     blockSize |-> 1, level |-> RInt(0), options |-> <<>>,
     corners |-> <<>>, outputWidth |-> 0, outputHeight |-> 0]

NoRect == [threw |-> "notrun", created |-> 0, canvas |-> [w |-> 0, h |-> 0], temp |-> NoBuf]

\* CaptureView as mounted, nothing captured, no invocation made
NullFile == "null"
Callers == { "view", "a", "b" }

IdleConfirm == [pc |-> "idle", photo |-> NullFile, corners |-> <<>>, pageNo |-> 0,
                loads |-> 0, pdCalls |-> 0]

NoOutcome == [outcome |-> "none", unchanged |-> TRUE, added |-> 0, isProcessing |-> FALSE,
              pendingPhoto |-> NullFile, loads |-> 0, pdCalls |-> 0, alerted |-> FALSE,
              settled |-> "idle", trace |-> <<>>]

NoCanvas == [w |-> 0, h |-> 0, ops |-> <<>>]

NullBlob == [null |-> TRUE, w |-> 0, h |-> 0, quality |-> RInt(0),
             defaultQuality |-> FALSE, ops |-> <<>>]

\* one invocation of processDocument, not yet made
IdleCall ==
    [pc |-> "idle", variant |-> "none", corners |-> <<>>, options |-> <<>>,
     trace |-> <<>>, created |-> 0, canvas |-> NoCanvas, error |-> "none",
     blob |-> NullBlob, canvasId |-> 0]

\* the canvas elements of the document: a slot is free, or holds the canvas
\* an invocation created and has not let go of
MaxCanvases == 3
FreeSlot == [free |-> TRUE, canvas |-> NoCanvas]
EmptyHeap == [id \in 1..MaxCanvases |-> FreeSlot]

\* getDefaultCorners not called; DocumentCropEditor not mounted
NoCornerCall == [called |-> FALSE, args |-> <<>>, corners |-> <<>>]
NoHandle == [type |-> "none", index |-> 0]
NoImage == [loaded |-> FALSE, naturalWidth |-> 0, naturalHeight |-> 0]
NoMove == [made |-> FALSE, handle |-> NoHandle, before |-> <<>>]
NoConfirm == [called |-> FALSE, corners |-> <<>>]
NoEditor ==
    [version |-> "none", mounted |-> FALSE, image |-> NoImage, corners |-> <<>>,
     activeHandle |-> NoHandle, moves |-> 0, lastMove |-> NoMove, confirmed |-> NoConfirm]

EditorIdle ==
    /\ cornerCall = NoCornerCall
    /\ editor = NoEditor

ViewIdle ==
    /\ photos = <<>>
    /\ pendingPhoto = NullFile
    /\ isProcessing = FALSE
    /\ isZipping = FALSE
    /\ isPdfing = FALSE
    /\ confirm = IdleConfirm
    /\ calls = [who \in Callers |-> IdleCall]
    /\ last = NoOutcome
    /\ heap = EmptyHeap

\* buffers whose pixels all have the brightness 20 but not the same channels
LitPalette == { <<10, 20, 30, 255>>, <<30, 20, 10, 255>> }

UniformlyLit ==
    UNION { { [w |-> d[1], h |-> d[2], data |-> s] :
                s \in [1..(d[1] * d[2]) -> LitPalette] } : d \in Dims }

InitStages ==
    /\ inBuf \in Buffers \cup UniformlyLit
    /\ outBuf = NoBuf
    /\ assigned = <<>>
    /\ locals = <<>>
    /\ applied = NoStage
    /\ rect = NoRect
    /\ ViewIdle
    /\ EditorIdle

ApplyEnhance ==
    /\ applied.fn = "none"
    /\ \E c \in Contrasts, b \in Brightnesses, g \in BOOLEAN :
        /\ assigned' = EnhanceChannels(inBuf, c, b, g)
        /\ locals' = <<>>
        /\ outBuf' = enhanceDocument(inBuf, c, b, g)
        /\ applied' = [NoStage EXCEPT !.fn = "enhance", !.contrast = c,
                                      !.brightness = b, !.grayscale = g]
    /\ UNCHANGED <<inBuf, rect, viewVars, editorVars>>

ApplyEnhanceZip ==
    /\ applied.fn = "none"
    /\ \E c \in Contrasts, b \in Brightnesses, g \in BOOLEAN :
        /\ assigned' = ZipEnhanceChannels(inBuf, c, b, g)
        /\ locals' = <<>>
        /\ outBuf' = enhanceDocumentZip(inBuf, c, b, g)
        /\ applied' = [NoStage EXCEPT !.fn = "enhanceZip", !.contrast = c,
                                      !.brightness = b, !.grayscale = g]
    /\ UNCHANGED <<inBuf, rect, viewVars, editorVars>>

DefaultBlockSize == 24
DocumentBlockSize == 16

\* a destructured option: the caller's value, or the default
Option(options, name, default) ==
    IF name \in DOMAIN options THEN options[name] ELSE default

\* the options objects adaptiveLightingCorrection is called with: none, or
\* one giving both the block size and the strength
AdaptiveOptions ==
    { <<>> } \cup { [blockSize |-> bs, strength |-> st] : bs \in BlockSizes, st \in Strengths }

\* const { blockSize = 24, strength = 0.9 } = options
DefaultStrength == Rat(9, 10)
AdaptiveBlockSize(options) == Option(options, "blockSize", DefaultBlockSize)
AdaptiveStrength(options) == Option(options, "strength", DefaultStrength)

ApplyAdaptive ==
    /\ applied.fn = "none"
    /\ \E o \in AdaptiveOptions :
        /\ assigned' = AdaptiveChannels(inBuf, AdaptiveBlockSize(o), AdaptiveStrength(o))
        /\ locals' = AdaptiveLocals(inBuf, AdaptiveBlockSize(o), AdaptiveStrength(o))
        /\ outBuf' = adaptiveLightingCorrection(inBuf, AdaptiveBlockSize(o), AdaptiveStrength(o))
        /\ applied' = [NoStage EXCEPT !.fn = "adaptive", !.options = o,
                                      !.blockSize = AdaptiveBlockSize(o),
                                      !.level = AdaptiveStrength(o)]
    /\ UNCHANGED <<inBuf, rect, viewVars, editorVars>>

ApplyDocumentMode ==
    /\ applied.fn = "none"
    /\ \E bs \in BlockSizes, wp \in WhitePoints :
        /\ assigned' = DocumentChannels(inBuf, bs, wp)
        /\ locals' = DocumentLocals(inBuf, bs, wp)
        /\ outBuf' = applyDocumentMode(inBuf, bs, wp)
        /\ applied' = [NoStage EXCEPT !.fn = "document", !.blockSize = bs, !.level = wp]
    /\ UNCHANGED <<inBuf, rect, viewVars, editorVars>>

NextStages == ApplyEnhance \/ ApplyEnhanceZip \/ ApplyAdaptive \/ ApplyDocumentMode

SpecStages == InitStages /\ [][NextStages]_vars

-----------------------------------------------------------------------------
(* applyPerspectiveCorrection applied to bounded inputs.                   *)

MaxSide == 2

\* a source image whose pixels are all different, so that a sampled pixel
\* tells where it was read
SourceImage(w, h) ==
    [w |-> w, h |-> h, data |-> [i \in 1..(w * h) |-> <<i, 2 * i, 255 - i, 255>>]]

RectifySources == { SourceImage(d[1], d[2]) : d \in (1..MaxSide) \X (1..MaxSide) }

Pt(x, y) == [x |-> x, y |-> y]

\* corner coordinates tried for a source: its four corners, a point inside or
\* on the border, a point outside
CornerPoints(src) ==
    { Pt(0, 0), Pt(src.w, 0), Pt(src.w, src.h), Pt(0, src.h), Pt(1, 1), Pt(-1, -1) }

FullRectangle(src) == << Pt(0, 0), Pt(src.w, 0), Pt(src.w, src.h), Pt(0, src.h) >>

CornerSets(src) ==
    { <<tl, tr, br, bl>> : tl \in CornerPoints(src), tr \in CornerPoints(src),
                           br \in CornerPoints(src), bl \in CornerPoints(src) }
    \cup { SubSeq(FullRectangle(src), 1, 3), Append(FullRectangle(src), Pt(1, 1)) }

DefaultOutputWidth == 816
DefaultOutputHeight == 1056
OutputSizes == { <<1, 1>>, <<DefaultOutputWidth, DefaultOutputHeight>> }

InitRectify ==
    /\ inBuf \in RectifySources
    /\ outBuf = NoBuf
    /\ assigned = <<>>
    /\ locals = <<>>
    /\ applied = NoStage
    /\ rect = NoRect
    /\ ViewIdle
    /\ EditorIdle

ApplyRectify ==
    /\ applied.fn = "none"
    /\ \E c \in CornerSets(inBuf), o \in OutputSizes :
        /\ rect' = applyPerspectiveCorrection(inBuf, c, o[1], o[2])
        /\ locals' = RectifyLocals(inBuf, c)
        /\ applied' = [NoStage EXCEPT !.fn = "rectify", !.corners = c,
                                      !.outputWidth = o[1], !.outputHeight = o[2]]
    /\ UNCHANGED <<inBuf, outBuf, assigned, viewVars, editorVars>>

NextRectify == ApplyRectify

SpecRectify == InitRectify /\ [][NextRectify]_vars

-----------------------------------------------------------------------------
(* processDocument.  In the pipeline a canvas is described by its size and *)
(* by the stages applied to it, each with the parameters it ran with.      *)


StageOp(stage, blockSize, level, contrast, brightness, grayscale) ==
    [stage |-> stage, blockSize |-> blockSize, level |-> level,
     contrast |-> contrast, brightness |-> brightness, grayscale |-> grayscale]


\* the run of the synchronous part: the stages entered so far, the canvas,
\* the canvases created, and the exception thrown, if any
StartRun == [error |-> "none", trace |-> <<>>, canvas |-> NoCanvas, created |-> 0]

\* ctx.getImageData(0, 0, w, h) throws IndexSizeError when w or h is 0
GetImageDataThrows(canvas) == canvas.w = 0 \/ canvas.h = 0

RectifyStage(run, image, corners, outputWidth, outputHeight) ==
    IF run.error # "none" THEN run
    ELSE LET r == applyPerspectiveCorrection(image, corners, outputWidth, outputHeight)
         IN  [error |-> r.threw,
              trace |-> Append(run.trace, "rectify"),
              created |-> run.created + r.created,
              canvas |-> IF r.threw = "none"
                         THEN [w |-> r.canvas.w, h |-> r.canvas.h,
                               ops |-> <<StageOp("rectify", 0, RInt(0), RInt(0), RInt(0), FALSE)>>]
                         ELSE NoCanvas]

\* adaptiveLightingCorrection(canvas, options): block size and strength are
\* destructured from its own options argument
AdaptiveLightingStage(run, options) ==
    IF run.error # "none" THEN run
    ELSE IF GetImageDataThrows(run.canvas)
    THEN [run EXCEPT !.error = "IndexSizeError", !.trace = Append(@, "normalize")]
    ELSE [run EXCEPT
            !.trace = Append(@, "normalize"),
            !.canvas.ops = Append(@,
                StageOp("adaptive", Option(options, "blockSize", DefaultBlockSize),
                        Option(options, "strength", Rat(9, 10)), RInt(0), RInt(0), FALSE))]

\* applyDocumentMode(canvas, options), src/unnamed/part_000
DocumentModeStage(run, options) ==
    IF run.error # "none" THEN run
    ELSE IF GetImageDataThrows(run.canvas)
    THEN [run EXCEPT !.error = "IndexSizeError", !.trace = Append(@, "normalize")]
    ELSE [run EXCEPT
            !.trace = Append(@, "normalize"),
            !.canvas.ops = Append(@,
                StageOp("document", Option(options, "blockSize", DocumentBlockSize),
                        Option(options, "whitePoint", Rat(17, 20)), RInt(0), RInt(0), FALSE))]

\* enhanceDocument(canvas, options)
EnhanceStage(run, options, defContrast, defBrightness) ==
    IF run.error # "none" THEN run
    ELSE IF GetImageDataThrows(run.canvas)
    THEN [run EXCEPT !.error = "IndexSizeError", !.trace = Append(@, "enhance")]
    ELSE [run EXCEPT
            !.trace = Append(@, "enhance"),
            !.canvas.ops = Append(@,
                StageOp("enhance", 0, RInt(0),
                        Option(options, "contrast", defContrast),
                        Option(options, "brightness", defBrightness),
                        Option(options, "grayscale", FALSE)))]

\* canvas.toBlob(resolve, 'image/jpeg', quality): the encode is started
EncodeStage(run) ==
    IF run.error # "none" THEN run
    ELSE [run EXCEPT !.trace = Append(@, "encode")]

Variants == { "ImageProcessor", "part_000", "ZipService" }

\* the contrast and brightness defaults of processDocument
DefaultContrast(variant) == IF variant = "ZipService" THEN Rat(7, 5) ELSE Rat(3, 2)
DefaultBrightness(variant) == IF variant = "ZipService" THEN RInt(20) ELSE RInt(10)

\* whether the normalizer is switched on (the copy in ZipService.js has none)
NormalizerEnabled(variant, options) ==
    CASE variant = "ImageProcessor" -> Option(options, "adaptiveLighting", TRUE)
      [] variant = "part_000" -> Option(options, "documentMode", TRUE)
      [] OTHER -> FALSE

\* a processDocument that runs both strategies one after the other (C22)
NormalizeStageBoth(run, variant, options) ==
    DocumentModeStage(
        AdaptiveLightingStage(run,
            [strength |-> Option(options, "lightingStrength", Rat(9, 10))]),
        <<>>)

\* the normalizer call of each copy, with the options object it passes
NormalizeStage(run, variant, options) ==
    CASE variant = "ImageProcessor" ->
            AdaptiveLightingStage(run,
                [strength |-> Option(options, "lightingStrength", Rat(9, 10))])
      [] variant = "part_000" -> DocumentModeStage(run, <<>>)
      [] OTHER -> run

\* the options object processDocument hands to enhanceDocument
EnhanceOptions(variant, options) ==
    [contrast |-> Option(options, "contrast", DefaultContrast(variant)),
     brightness |-> Option(options, "brightness", DefaultBrightness(variant)),
     grayscale |-> Option(options, "grayscale", FALSE)]

\* processDocument with the enhance and normalizer calls exchanged: the
\* stages then run out of the fixed order (C1)
processDocumentEnhanceFirst(variant, image, corners, options) ==
    LET rectified ==
            RectifyStage(StartRun, image, corners,
                         Option(options, "outputWidth", DefaultOutputWidth),
                         Option(options, "outputHeight", DefaultOutputHeight))
        enhanced ==
            EnhanceStage(rectified, EnhanceOptions(variant, options),
                         DefaultContrast(variant), DefaultBrightness(variant))
        normalized ==
            IF NormalizerEnabled(variant, options)
            THEN NormalizeStage(enhanced, variant, options)
            ELSE enhanced
    IN  EncodeStage(normalized)

\* the synchronous part of processDocument, up to the call of toBlob
processDocument(variant, image, corners, options) ==
    LET rectified ==
            RectifyStage(StartRun, image, corners,
                         Option(options, "outputWidth", DefaultOutputWidth),
                         Option(options, "outputHeight", DefaultOutputHeight))
        normalized ==
            IF NormalizerEnabled(variant, options)
            THEN NormalizeStage(rectified, variant, options)
            ELSE rectified
        enhanced ==
            EnhanceStage(normalized, EnhanceOptions(variant, options),
                         DefaultContrast(variant), DefaultBrightness(variant))
    IN  EncodeStage(enhanced)

\* toBlob uses the quality argument when it is a number in [0,1] and its own
\* default otherwise; the callback gets null when the image cannot be encoded
QualityUsable(q) == RLe(RInt(0), q) /\ RLe(q, RInt(1))

EncodedBlob(canvas, quality) ==
    [null |-> FALSE, w |-> canvas.w, h |-> canvas.h,
     quality |-> IF QualityUsable(quality) THEN quality ELSE RInt(0),
     defaultQuality |-> ~QualityUsable(quality), ops |-> canvas.ops]

\* the invocation after its synchronous part: awaiting the encoder, or
\* rejected with what a stage threw
StartedCall(variant, image, corners, options) ==
    LET run == processDocument(variant, image, corners, options)
    IN  [pc |-> IF run.error = "none" THEN "encoding" ELSE "rejected",
         variant |-> variant, corners |-> corners, options |-> options,
         trace |-> run.trace, created |-> run.created, canvas |-> run.canvas,
         error |-> run.error, blob |-> NullBlob, canvasId |-> 0]

\* document.createElement('canvas') gives an element that is no other
\* invocation's: here the free slot with the smallest number
FreeIds(h) == { id \in DOMAIN h : h[id].free }

\* a createElement that hands every caller the same element (C24)
CreateCanvasShared(h) == 1

CreateCanvas(h) == CHOOSE id \in FreeIds(h) : \A other \in FreeIds(h) : id <= other

\* the invocation on the heap.  The output canvas is the first element
\* created and the one the stages work on in place; the temporary and the
\* source canvas are dropped when applyPerspectiveCorrection returns, and a
\* rejected invocation holds nothing.  toBlob copies the bitmap when it is
\* called, so the call record's canvas is what the encoder works from.
InvokedCall(h, call) ==
    IF call.pc = "encoding" THEN [call EXCEPT !.canvasId = CreateCanvas(h)] ELSE call

HeapAfterInvoke(h, call) ==
    IF call.pc = "encoding"
    THEN [h EXCEPT ![call.canvasId] = [free |-> FALSE, canvas |-> call.canvas]]
    ELSE h

\* the promise has settled: nothing refers to the canvas any more
HeapAfterSettle(h, call) == [h EXCEPT ![call.canvasId] = FreeSlot]

\* the promise executor's resolve, called by toBlob with the blob or null
ResolvedCall(call, encoded) ==
    [call EXCEPT !.pc = "resolved",
                 !.blob = IF encoded
                          THEN EncodedBlob(call.canvas,
                                           Option(call.options, "quality", Rat(23, 25)))
                          ELSE NullBlob]

-----------------------------------------------------------------------------
(* processDocument called directly, with bounded inputs.                   *)

DecodedImage == SourceImage(2, 2)

CollapsedRectangle(src) == << Pt(0, src.h), Pt(src.w, src.h), Pt(src.w, src.h), Pt(0, src.h) >>

PipelineCorners ==
    { FullRectangle(DecodedImage), CollapsedRectangle(DecodedImage),
      SubSeq(FullRectangle(DecodedImage), 1, 3),
      Append(FullRectangle(DecodedImage), Pt(1, 1)) }

\* what CaptureView passes
CaptureViewOptions == [contrast |-> Rat(7, 5), brightness |-> RInt(20), grayscale |-> FALSE]

PipelineOptions ==
    { <<>>, CaptureViewOptions,
      [outputWidth |-> 0], [outputHeight |-> 0],
      [quality |-> Rat(3, 2)], [quality |-> RInt(0)],
      [adaptiveLighting |-> FALSE, documentMode |-> FALSE],
      [outputWidth |-> 2, outputHeight |-> 3, quality |-> Rat(1, 2),
       lightingStrength |-> Rat(1, 2), blockSize |-> 8, whitePoint |-> Rat(1, 2),
       grayscale |-> TRUE] }

InitPipeline ==
    /\ inBuf = NoBuf
    /\ outBuf = NoBuf
    /\ assigned = <<>>
    /\ locals = <<>>
    /\ applied = NoStage
    /\ rect = NoRect
    /\ ViewIdle
    /\ EditorIdle

\* a caller invokes processDocument; its synchronous part runs at once
ProcessDocumentCall(who) ==
    /\ calls[who].pc \in {"idle", "resolved", "rejected"}
    /\ \E v \in Variants, c \in PipelineCorners, o \in PipelineOptions :
        calls' = [calls EXCEPT ![who] = InvokedCall(heap, StartedCall(v, DecodedImage, c, o))]
    /\ heap' = HeapAfterInvoke(heap, calls'[who])
    /\ UNCHANGED <<stageVars, editorVars, photos, pendingPhoto, isProcessing, isZipping, isPdfing,
                   confirm, last>>

\* the encoder calls back, with a blob or with null
ToBlobCallback(who) ==
    /\ calls[who].pc = "encoding"
    /\ \E encoded \in BOOLEAN :
        calls' = [calls EXCEPT ![who] = ResolvedCall(calls[who], encoded)]
    /\ heap' = HeapAfterSettle(heap, calls[who])
    /\ UNCHANGED <<stageVars, editorVars, photos, pendingPhoto, isProcessing, isZipping, isPdfing,
                   confirm, last>>

NextPipeline == ProcessDocumentCall("a") \/ ToBlobCallback("a")

SpecPipeline == InitPipeline /\ [][NextPipeline]_vars

\* two callers invoke processDocument independently of each other: the
\* synchronous part of one invocation runs to its toBlob call without
\* interruption, the encoder callbacks arrive in any order
ReentrantCorners == { FullRectangle(DecodedImage), CollapsedRectangle(DecodedImage) }

ReentrantOptions ==
    { <<>>, CaptureViewOptions, [adaptiveLighting |-> FALSE, documentMode |-> FALSE] }

ReentrantCall(who) ==
    /\ calls[who].pc \in {"idle", "resolved", "rejected"}
    /\ \E v \in Variants, c \in ReentrantCorners, o \in ReentrantOptions :
        calls' = [calls EXCEPT ![who] = InvokedCall(heap, StartedCall(v, DecodedImage, c, o))]
    /\ heap' = HeapAfterInvoke(heap, calls'[who])
    /\ UNCHANGED <<stageVars, editorVars, photos, pendingPhoto, isProcessing, isZipping, isPdfing,
                   confirm, last>>

NextReentrant ==
    \/ ReentrantCall("a")
    \/ ToBlobCallback("a")
    \/ ReentrantCall("b")
    \/ ToBlobCallback("b")

SpecReentrant == InitPipeline /\ [][NextReentrant]_vars

-----------------------------------------------------------------------------
(* CaptureView, src/src/components/CaptureView.jsx.                        *)

MaxPages == 2

Files == { "photoA", "photoB" }

\* the corner sets DocumentCropEditor can confirm: always four points, here
\* the whole image, and the top edge dragged down onto the bottom edge
EditorCorners == { FullRectangle(DecodedImage), CollapsedRectangle(DecodedImage) }

\* {pendingPhoto && !isProcessing && <DocumentCropEditor .../>}
EditorShown == pendingPhoto # NullFile /\ ~isProcessing

\* new File([processedBlob], `page_${photos.length + 1}.jpg`): a null blob
\* is accepted like any other part
Page(pageNo, blob) == [name |-> pageNo, blob |-> blob]

\* what a finished handleCropConfirm left behind
\* (alerted: the catch block ran; settled, trace: how the processDocument
\* promise settled and the stages it entered, "idle" and none when not called)
Outcome(kind, before, after, processing, pending, c, alerted, call) ==
    [outcome |-> kind, unchanged |-> (after = before), added |-> Len(after) - Len(before),
     isProcessing |-> processing, pendingPhoto |-> pending,
     loads |-> c.loads, pdCalls |-> c.pdCalls, alerted |-> alerted,
     settled |-> call.pc, trace |-> call.trace]

\* handleCapture with a file chosen
HandleCapture ==
    /\ \E f \in Files : pendingPhoto' = f
    /\ UNCHANGED <<stageVars, editorVars, heap, photos, isProcessing, isZipping, isPdfing, confirm, calls, last>>

\* handleCropConfirm up to its first await: loadImage(pendingPhoto) is started
HandleCropConfirm ==
    /\ EditorShown
    /\ Len(photos) < MaxPages
    /\ \E c \in EditorCorners :
        confirm' = [pc |-> "loading", photo |-> pendingPhoto, corners |-> c,
                    pageNo |-> Len(photos) + 1, loads |-> 1, pdCalls |-> 0]
    /\ isProcessing' = TRUE
    /\ UNCHANGED <<stageVars, editorVars, heap, photos, pendingPhoto, isZipping, isPdfing, calls, last>>

\* the processDocument call handleCropConfirm makes
ViewCall(corners) ==
    InvokedCall(heap, StartedCall("ImageProcessor", DecodedImage, corners, CaptureViewOptions))

\* a handler that does not stop at the rejected loadImage and calls
\* processDocument all the same before its catch runs (C7)
LoadImageRejectedUnchecked ==
    /\ confirm.pc = "loading"
    /\ calls' = [calls EXCEPT !["view"] = ViewCall(confirm.corners)]
    /\ heap' = HeapAfterInvoke(heap, calls'["view"])
    /\ isProcessing' = FALSE
    /\ pendingPhoto' = NullFile
    /\ last' = Outcome("decodeFailed", photos, photos, isProcessing', pendingPhoto',
                       [confirm EXCEPT !.pdCalls = @ + 1], TRUE, calls'["view"])
    /\ confirm' = IdleConfirm
    /\ UNCHANGED <<stageVars, editorVars, photos, isZipping, isPdfing>>

\* img.onerror: loadImage rejects, catch and finally of handleCropConfirm run
LoadImageRejected ==
    /\ confirm.pc = "loading"
    /\ isProcessing' = FALSE
    /\ pendingPhoto' = NullFile
    /\ last' = Outcome("decodeFailed", photos, photos, isProcessing', pendingPhoto',
                       confirm, TRUE, IdleCall)
    /\ confirm' = IdleConfirm
    /\ UNCHANGED <<stageVars, editorVars, heap, photos, calls, isZipping, isPdfing>>

\* img.onload: the await resumes and processDocument is called; when a
\* stage throws, catch and finally run at once
LoadImageResolved ==
    /\ confirm.pc = "loading"
    /\ calls' = [calls EXCEPT !["view"] = ViewCall(confirm.corners)]
    /\ heap' = HeapAfterInvoke(heap, calls'["view"])
    /\ \/ /\ calls'["view"].pc = "rejected"
          /\ isProcessing' = FALSE
          /\ pendingPhoto' = NullFile
          /\ last' = Outcome("processFailed", photos, photos, isProcessing', pendingPhoto',
                             [confirm EXCEPT !.pdCalls = @ + 1], TRUE, calls'["view"])
          /\ confirm' = IdleConfirm
       \/ /\ calls'["view"].pc = "encoding"
          /\ confirm' = [confirm EXCEPT !.pc = "encoding", !.pdCalls = @ + 1]
          /\ UNCHANGED <<last, isProcessing, pendingPhoto>>
    /\ UNCHANGED <<stageVars, editorVars, photos, isZipping, isPdfing>>

\* toBlob calls back: the promise resolves (with the blob or with null), the
\* page is appended, finally runs
CropConfirmEncoded ==
    /\ confirm.pc = "encoding"
    /\ isProcessing' = FALSE
    /\ pendingPhoto' = NullFile
    /\ \E encoded \in BOOLEAN :
        /\ calls' = [calls EXCEPT !["view"] = ResolvedCall(calls["view"], encoded)]
        /\ photos' = Append(photos, Page(confirm.pageNo, calls'["view"].blob))
        /\ heap' = HeapAfterSettle(heap, calls["view"])
        /\ last' = Outcome(IF encoded THEN "success" ELSE "encodeFailed",
                           photos, photos', isProcessing', pendingPhoto',
                           confirm, FALSE, calls'["view"])
    /\ confirm' = IdleConfirm
    /\ UNCHANGED <<stageVars, editorVars, isZipping, isPdfing>>

HandleCropCancel ==
    /\ EditorShown
    /\ pendingPhoto' = NullFile
    /\ UNCHANGED <<stageVars, editorVars, heap, photos, isProcessing, isZipping, isPdfing, confirm, calls, last>>

\* prev.filter((_, i) => i !== index)
RemoveAt(s, index) == [k \in 1..(Len(s) - 1) |-> IF k < index THEN s[k] ELSE s[k + 1]]

HandleRemove ==
    /\ \E index \in 1..Len(photos) : photos' = RemoveAt(photos, index)
    /\ UNCHANGED <<stageVars, editorVars, heap, pendingPhoto, isProcessing, isZipping, isPdfing, confirm, calls, last>>

\* the export buttons are disabled while the list is empty or an export runs
ExportEnabled == Len(photos) > 0 /\ ~isZipping /\ ~isPdfing

HandleZip ==
    /\ ExportEnabled
    /\ isZipping' = TRUE
    /\ UNCHANGED <<stageVars, editorVars, heap, photos, pendingPhoto, isProcessing, isPdfing, confirm, calls, last>>

\* createHomeworkZip settled, either way: finally
ZipSettled ==
    /\ isZipping
    /\ isZipping' = FALSE
    /\ UNCHANGED <<stageVars, editorVars, heap, photos, pendingPhoto, isProcessing, isPdfing, confirm, calls, last>>

HandlePdf ==
    /\ ExportEnabled
    /\ isPdfing' = TRUE
    /\ UNCHANGED <<stageVars, editorVars, heap, photos, pendingPhoto, isProcessing, isZipping, confirm, calls, last>>

PdfSettled ==
    /\ isPdfing
    /\ isPdfing' = FALSE
    /\ UNCHANGED <<stageVars, editorVars, heap, photos, pendingPhoto, isProcessing, isZipping, confirm, calls, last>>

Init == InitPipeline

Next ==
    \/ HandleCapture
    \/ HandleCropConfirm
    \/ LoadImageResolved
    \/ LoadImageRejected
    \/ CropConfirmEncoded
    \/ HandleCropCancel
    \/ HandleRemove
    \/ HandleZip
    \/ ZipSettled
    \/ HandlePdf
    \/ PdfSettled

Spec == Init /\ [][Next]_vars

-----------------------------------------------------------------------------
(* getDefaultCorners, src/src/utils/ImageProcessor.js, applied to bounded   *)
(* inputs.  Here the coordinates of a point are rationals.                 *)

\* the margin parameter's default, 0.05
DefaultMargin == Rat(1, 20)

\* a getDefaultCorners that lists the bottom corners left to right (C25)
getDefaultCornersRowByRow(width, height, margin) ==
    LET mx == RMul(RInt(width), margin)
        my == RMul(RInt(height), margin)
    IN  << Pt(mx, my),
           Pt(RSub(RInt(width), mx), my),
           Pt(mx, RSub(RInt(height), my)),
           Pt(RSub(RInt(width), mx), RSub(RInt(height), my)) >>

getDefaultCorners(width, height, margin) ==
    LET mx == RMul(RInt(width), margin)
        my == RMul(RInt(height), margin)
    IN  << Pt(mx, my),
           Pt(RSub(RInt(width), mx), my),
           Pt(RSub(RInt(width), mx), RSub(RInt(height), my)),
           Pt(mx, RSub(RInt(height), my)) >>

MaxImageSide == 4

\* margins passed: the ends and the inside of [0, 1/2], and values outside
Margins == { Rat(0, 1), Rat(1, 20), Rat(1, 4), Rat(1, 2), Rat(3, 4), Rat(-1, 4) }

\* argument lists: (width, height) and (width, height, margin)
CornerArgs ==
    { <<w, h>> : w \in 0..MaxImageSide, h \in 0..MaxImageSide }
    \cup { <<w, h, m>> : w \in 0..MaxImageSide, h \in 0..MaxImageSide, m \in Margins }

\* the value of the margin parameter for an argument list
MarginOf(args) == IF Len(args) >= 3 THEN args[3] ELSE DefaultMargin

InitCorners == InitPipeline

GetDefaultCornersCall ==
    /\ \E args \in CornerArgs :
        cornerCall' = [called |-> TRUE, args |-> args,
                       corners |-> getDefaultCorners(args[1], args[2], MarginOf(args))]
    /\ UNCHANGED <<stageVars, viewVars, editor>>

NextCorners == GetDefaultCornersCall

SpecCorners == InitCorners /\ [][NextCorners]_vars

-----------------------------------------------------------------------------
(* DocumentCropEditor, src/unnamed/part_001: the first version, with       *)
(* corner handles, and the second, with corner and edge handles and a      *)
(* smoothed corner movement.  Handle indices are the code's, 0..3; the     *)
(* corner with index i is corners[i + 1].                                  *)
(*   editor.moves     counts the handlePointerMove calls                   *)
(*   editor.lastMove  the handle and the corners the last of them found    *)
(*   editor.confirmed what onConfirm was last called with                  *)

EditorVersions == { "v1", "v2" }

\* useState(null), useState([]), useState(null)
MountedEditor(version) == [NoEditor EXCEPT !.version = version, !.mounted = TRUE]

\* the images loadImage can resolve with
EditorImages ==
    { [loaded |-> TRUE, naturalWidth |-> MaxImageSide, naturalHeight |-> 2],
      [loaded |-> TRUE, naturalWidth |-> 2, naturalHeight |-> MaxImageSide] }

\* loadImage(imageFile).then(img => { setImage(img); setCorners(...) })
LoadedEditor(e, img) ==
    [e EXCEPT !.image = img,
              !.corners = getDefaultCorners(img.naturalWidth, img.naturalHeight, Rat(1, 20)),
              !.lastMove = NoMove]

\* SMOOTHING = 0.4
Smoothing == Rat(2, 5)

\* Math.max(0, Math.min(max, v))
ClampTo(v, max) == RMax(RInt(0), RMin(RInt(max), v))

\* the pointer in image coordinates, displayToImage(clientX, clientY): inside
\* the image, and beyond it on either side
PointerPositions(img) ==
    { Pt(RInt(-1), RInt(-1)), Pt(RInt(1), RInt(1)),
      Pt(RInt(img.naturalWidth + 1), RInt(img.naturalHeight + 1)) }

ReplaceAt(cs, i, pt) == [cs EXCEPT ![i] = pt]

\* first version: newCorners[activeCorner] = { x: clampedX, y: clampedY }
CornerPlaced(e, pos) ==
    ReplaceAt(e.corners, e.activeHandle.index + 1,
              Pt(ClampTo(pos.x, e.image.naturalWidth), ClampTo(pos.y, e.image.naturalHeight)))

\* current + (clamped - current) * SMOOTHING
Smoothed(current, clamped) == RAdd(current, RMul(RSub(clamped, current), Smoothing))

\* second version, corner handle
CornerDragged(e, pos) ==
    LET current == e.corners[e.activeHandle.index + 1]
    IN  ReplaceAt(e.corners, e.activeHandle.index + 1,
                  Pt(Smoothed(current.x, ClampTo(pos.x, e.image.naturalWidth)),
                     Smoothed(current.y, ClampTo(pos.y, e.image.naturalHeight))))

getEdgeMidpoint(cs, edgeIndex) ==
    LET c1 == cs[edgeIndex + 1]
        c2 == cs[((edgeIndex + 1) % 4) + 1]
    IN  Pt(RDiv(RAdd(c1.x, c2.x), RInt(2)), RDiv(RAdd(c1.y, c2.y), RInt(2)))

\* an edge coordinate moved by the delta and left where it lands (C30)
EdgeCoordinateUnclamped(prev, delta, max) == RAdd(prev, delta)

\* Math.max(0, Math.min(max, prev + delta))
EdgeCoordinate(prev, delta, max) == ClampTo(RAdd(prev, delta), max)

\* second version, edge handle: both corners of the edge move by the
\* distance from the edge's midpoint to the pointer, the top and bottom edge
\* vertically, the right and left edge horizontally
EdgeDragged(e, pos) ==
    LET edgeIndex == e.activeHandle.index
        c1Index == edgeIndex + 1
        c2Index == ((edgeIndex + 1) % 4) + 1
        midpoint == getEdgeMidpoint(e.corners, edgeIndex)
        deltaX == RSub(ClampTo(pos.x, e.image.naturalWidth), midpoint.x)
        deltaY == RSub(ClampTo(pos.y, e.image.naturalHeight), midpoint.y)
        prev == e.corners
        MovedCorner(i) ==
            IF edgeIndex = 0 \/ edgeIndex = 2
            THEN Pt(prev[i].x, EdgeCoordinate(prev[i].y, deltaY, e.image.naturalHeight))
            ELSE Pt(EdgeCoordinate(prev[i].x, deltaX, e.image.naturalWidth), prev[i].y)
    IN  [i \in 1..4 |-> IF i = c1Index \/ i = c2Index THEN MovedCorner(i) ELSE prev[i]]

\* handlePointerMove of either version: nothing without an active handle
handlePointerMove(e, pos) ==
    CASE e.activeHandle.type = "none" -> e.corners
      [] e.version = "v1" -> CornerPlaced(e, pos)
      [] e.activeHandle.type = "corner" -> CornerDragged(e, pos)
      [] OTHER -> EdgeDragged(e, pos)

MaxMoves == 2

InitEditor ==
    /\ inBuf = NoBuf
    /\ outBuf = NoBuf
    /\ assigned = <<>>
    /\ locals = <<>>
    /\ applied = NoStage
    /\ rect = NoRect
    /\ ViewIdle
    /\ cornerCall = NoCornerCall
    /\ editor \in { MountedEditor(v) : v \in EditorVersions }

\* loadImage resolves, on mount or after the imageFile prop has changed
ImageLoaded ==
    /\ editor.mounted
    /\ \E img \in EditorImages : editor' = LoadedEditor(editor, img)
    /\ UNCHANGED <<stageVars, viewVars, cornerCall>>

\* the handles are rendered once there is an image and there are corners
HandlesShown == editor.mounted /\ editor.image.loaded /\ Len(editor.corners) = 4

\* handlePointerDown (first version) and handleCornerDown
HandleCornerDown ==
    /\ HandlesShown
    /\ \E cornerIndex \in 0..3 :
        editor' = [editor EXCEPT !.activeHandle = [type |-> "corner", index |-> cornerIndex]]
    /\ UNCHANGED <<stageVars, viewVars, cornerCall>>

HandleEdgeDown ==
    /\ HandlesShown
    /\ editor.version = "v2"
    /\ \E edgeIndex \in 0..3 :
        editor' = [editor EXCEPT !.activeHandle = [type |-> "edge", index |-> edgeIndex]]
    /\ UNCHANGED <<stageVars, viewVars, cornerCall>>

HandlePointerMove ==
    /\ editor.mounted
    /\ editor.image.loaded
    /\ editor.moves < MaxMoves
    /\ \E pos \in PointerPositions(editor.image) :
        editor' = [editor EXCEPT
                      !.corners = handlePointerMove(editor, pos),
                      !.moves = @ + 1,
                      !.lastMove = [made |-> TRUE, handle |-> editor.activeHandle,
                                    before |-> editor.corners]]
    /\ UNCHANGED <<stageVars, viewVars, cornerCall>>

HandlePointerUp ==
    /\ editor.mounted
    /\ editor.activeHandle.type # "none"
    /\ editor' = [editor EXCEPT !.activeHandle = NoHandle]
    /\ UNCHANGED <<stageVars, viewVars, cornerCall>>

\* handleConfirm: the Apply Crop button is there once the image is.  The
\* parent's onConfirm starts processing, which takes the editor off the page.
EditorConfirm ==
    /\ editor.mounted
    /\ editor.image.loaded
    /\ Len(editor.corners) = 4
    /\ editor' = [editor EXCEPT !.confirmed = [called |-> TRUE, corners |-> editor.corners],
                                !.mounted = FALSE]
    /\ UNCHANGED <<stageVars, viewVars, cornerCall>>

NextEditor ==
    \/ ImageLoaded
    \/ HandleCornerDown
    \/ HandleEdgeDown
    \/ HandlePointerMove
    \/ HandlePointerUp
    \/ EditorConfirm

SpecEditor == InitEditor /\ [][NextEditor]_vars

-----------------------------------------------------------------------------
(* Claims about the stages.                                                *)

\* C2: whenever applyPerspectiveCorrection returns, the canvas it returns is
\* exactly outputWidth x outputHeight, whatever the size of the intermediate
\* buffer.
C2_RectifyOutputSize ==
    (applied.fn = "rectify" /\ Len(applied.corners) = 4 /\ rect.threw = "none")
        => /\ rect.canvas.w = applied.outputWidth
           /\ rect.canvas.h = applied.outputHeight

\* C2 witness: a four-corner call returned, and its intermediate buffer has
\* another size than the requested output.
C2_Witness ==
    /\ applied.fn = "rectify"
    /\ Len(applied.corners) = 4
    /\ rect.threw = "none"
    /\ rect.temp.w # applied.outputWidth
    /\ rect.temp.h # applied.outputHeight
    /\ rect.temp.w * rect.temp.h > 1

\* C3: every number a stage assigns to the data array already lies in
\* [0,255] (the stage's own clamp is its last step), and so does every
\* R, G, B value of the buffer it leaves.
C3_ChannelsInRange ==
    applied.fn \in {"adaptive", "document", "enhance"}
        => \A i \in 1..Len(outBuf.data) : \A c \in 1..3 :
                /\ InByteRange(assigned[i][c])
                /\ outBuf.data[i][c] \in 0..255

\* C3 witness: adaptive lighting brightened a channel past 255 and the
\* clamp cut it back to 255.
C3_Witness ==
    /\ applied.fn = "adaptive"
    /\ \E i \in 1..Len(outBuf.data) :
        /\ inBuf.data[i][1] = 200
        /\ assigned[i][1] = RInt(255)
        /\ outBuf.data[i][1] = 255

\* C9: enhance with contrast 1, brightness 0 and grayscale off changes no
\* R, G, B or A value.
C9_EnhanceIdentity ==
    (/\ applied.fn = "enhance"
     /\ applied.contrast = RInt(1)
     /\ applied.brightness = RInt(0)
     /\ ~applied.grayscale)
        => outBuf = inBuf

\* C9 witness: the identity parameters were applied to a buffer of several
\* pixels, one of them coloured and half transparent.
C9_Witness ==
    /\ applied.fn = "enhance"
    /\ applied.contrast = RInt(1)
    /\ applied.brightness = RInt(0)
    /\ ~applied.grayscale
    /\ Len(inBuf.data) > 1
    /\ \E i \in 1..Len(inBuf.data) : inBuf.data[i] = <<200, 120, 40, 128>>
    /\ outBuf = inBuf

\* C10 (as claimed): in every copy of enhanceDocument each output pixel is
\* what the pixel alone yields: clamp((value-128)*contrast + 128 + brightness)
\* with exactly the configured brightness, whatever the other pixels are.
C10_EnhancePointwiseEveryCopy ==
    applied.fn \in {"enhance", "enhanceZip"}
        => \A i \in 1..Len(outBuf.data) :
             outBuf.data[i] =
                enhanceDocument([w |-> 1, h |-> 1, data |-> <<inBuf.data[i]>>],
                                applied.contrast, applied.brightness,
                                applied.grayscale).data[1]

-----------------------------------------------------------------------------
(* Claims about processDocument and CaptureView.                           *)

IsPrefix(s, t) == Len(s) <= Len(t) /\ SubSeq(t, 1, Len(s)) = s

\* the order the stages are to run in for a configuration
ExpectedStages(variant, options) ==
    <<"rectify">>
        \o (IF NormalizerEnabled(variant, options) THEN <<"normalize">> ELSE <<>>)
        \o <<"enhance", "encode">>

\* the kind of stage each applied operation belongs to
StageKind(op) == IF op.stage \in {"adaptive", "document"} THEN "normalize" ELSE op.stage

\* C1: in every invocation the stages entered are an initial part of
\* rectify, normalize (only if enabled), enhance, encode, each at most once;
\* an invocation that reached the encoder entered all of them, and its canvas
\* went through exactly the stages before encode, in that order.
C1_StageOrder ==
    \A who \in Callers :
        LET call == calls[who]
            expected == ExpectedStages(call.variant, call.options)
        IN  call.pc # "idle" =>
              /\ IsPrefix(call.trace, expected)
              /\ call.pc \in {"encoding", "resolved"} =>
                    /\ call.trace = expected
                    /\ Len(call.canvas.ops) = Len(expected) - 1
                    /\ \A k \in 1..Len(call.canvas.ops) :
                            StageKind(call.canvas.ops[k]) = expected[k]

\* C1 witness: an invocation with the normalizer on ran all four stages and
\* was encoded.
C1_Witness ==
    /\ calls["a"].pc = "resolved"
    /\ ~calls["a"].blob.null
    /\ calls["a"].variant = "ImageProcessor"
    /\ calls["a"].trace = <<"rectify", "normalize", "enhance", "encode">>

\* C4 (as claimed): an invocation given a corner set of fewer or more than
\* four points ends rejected with InvalidCornersError, having entered no
\* stage, created no buffer and encoded nothing.
C4_InvalidCornersRejected ==
    \A who \in Callers :
        LET call == calls[who]
        IN  (call.pc # "idle" /\ Len(call.corners) # 4)
                => /\ call.pc = "rejected"
                   /\ call.error = "InvalidCornersError"
                   /\ call.trace = <<>>
                   /\ call.created = 0
                   /\ call.blob.null

\* the configuration is out of range: a dimension not positive, or the
\* quality outside (0,1]
ConfigOutOfRange(options) ==
    \/ Option(options, "outputWidth", DefaultOutputWidth) <= 0
    \/ Option(options, "outputHeight", DefaultOutputHeight) <= 0
    \/ ~RLt(RInt(0), Option(options, "quality", Rat(23, 25)))
    \/ ~RLe(Option(options, "quality", Rat(23, 25)), RInt(1))

\* C5 (as claimed): an invocation with an out-of-range configuration ends
\* rejected with InvalidConfigError and produces no output.
C5_InvalidConfigRejected ==
    \A who \in Callers :
        LET call == calls[who]
        IN  (call.pc # "idle" /\ ConfigOutOfRange(call.options))
                => /\ call.pc = "rejected"
                   /\ call.error = "InvalidConfigError"
                   /\ call.blob.null

\* C6 (as claimed): when the encoder fails, the processDocument promise is
\* rejected, the catch block of handleCropConfirm reports it, and no page
\* is appended.
C6_EncodeFailureSurfaced ==
    last.outcome = "encodeFailed"
        => /\ last.settled = "rejected"
           /\ last.alerted
           /\ last.added = 0

\* C7: when loadImage rejects, handleCropConfirm reports it, has called
\* loadImage once and processDocument never, no stage has run, and the page
\* list is as it was.
C7_DecodeFailureStopsPipeline ==
    last.outcome = "decodeFailed"
        => /\ last.alerted
           /\ last.loads = 1
           /\ last.pdCalls = 0
           /\ last.settled = "idle"
           /\ last.trace = <<>>
           /\ last.unchanged

\* C7 witness: a decode failure happened while a page was already listed.
C7_Witness ==
    /\ last.outcome = "decodeFailed"
    /\ confirm.pc = "idle"
    /\ Len(photos) > 0

\* C8 (as claimed): a handleCropConfirm that failed (decode, processing or
\* encode) was not retried and left the page list unchanged, isProcessing
\* false and pendingPhoto null.
C8_FailureLeavesStateIntact ==
    last.outcome \in {"decodeFailed", "processFailed", "encodeFailed"}
        => /\ last.unchanged
           /\ ~last.isProcessing
           /\ last.pendingPhoto = NullFile
           /\ last.loads = 1
           /\ last.pdCalls <= 1

-----------------------------------------------------------------------------
(* Claims about enhance and the two normalizers.                           *)

\* C11: after enhance with grayscale on, every pixel has R = G = B, whatever
\* the contrast and the brightness.
C11_GrayscaleEqualChannels ==
    (applied.fn \in {"enhance", "enhanceZip"} /\ applied.grayscale)
        => \A i \in 1..Len(outBuf.data) :
                /\ outBuf.data[i][1] = outBuf.data[i][2]
                /\ outBuf.data[i][2] = outBuf.data[i][3]

\* C11 witness: a coloured pixel came out gray, and not by the clamp.
C11_Witness ==
    /\ applied.fn = "enhance"
    /\ applied.grayscale
    /\ \E i \in 1..Len(outBuf.data) :
        /\ inBuf.data[i] = <<200, 120, 40, 128>>
        /\ outBuf.data[i][1] = outBuf.data[i][3]
        /\ outBuf.data[i][1] \in 1..254

\* C12: with contrast 1 and brightness 0, enhance applied to the buffer that
\* enhance left gives that buffer again, with grayscale on or off.
C12_EnhanceIdempotent ==
    (applied.fn = "enhance" /\ applied.contrast = RInt(1) /\ applied.brightness = RInt(0))
        => enhanceDocument(outBuf, applied.contrast, applied.brightness,
                           applied.grayscale) = outBuf

\* C12 witness: the first run, with grayscale on, did change the buffer.
C12_Witness ==
    /\ applied.fn = "enhance"
    /\ applied.contrast = RInt(1)
    /\ applied.brightness = RInt(0)
    /\ applied.grayscale
    /\ outBuf # inBuf
    /\ \E i \in 1..Len(outBuf.data) : outBuf.data[i][1] \in 17..254

UniformBrightness(buf) ==
    \A i, j \in 1..Len(buf.data) : Brightness(buf.data[i]) = Brightness(buf.data[j])

\* C13: adaptiveLightingCorrection with strength 0 leaves every channel of
\* every pixel as it was, for every buffer and block size.
C13_StrengthZeroIdentity ==
    (applied.fn = "adaptive" /\ applied.level = RInt(0)) => outBuf = inBuf

\* C13 witness: strength 0 on a buffer that is not evenly lit, where a pixel's
\* local brightness is positive and differs from the target.
C13_Witness ==
    /\ applied.fn = "adaptive"
    /\ applied.level = RInt(0)
    /\ \E i \in 1..Len(inBuf.data) :
        /\ RLt(RInt(0), locals[i].localBrightness)
        /\ locals[i].localBrightness # locals[i].target
        /\ inBuf.data[i][1] > 0

\* C14: adaptiveLightingCorrection with strength 1 on a buffer whose pixels
\* all have the same brightness (all black included, partial last blocks
\* included) returns the buffer unchanged.
C14_UniformInputUnchanged ==
    (applied.fn = "adaptive" /\ applied.level = RInt(1) /\ UniformBrightness(inBuf))
        => outBuf = inBuf

\* C14 witness: strength 1 on three pixels of equal brightness but different
\* channels, with blocks of two so that the last block is partial.
C14_Witness ==
    /\ applied.fn = "adaptive"
    /\ applied.level = RInt(1)
    /\ applied.blockSize = 2
    /\ inBuf.w = 3
    /\ UniformBrightness(inBuf)
    /\ inBuf.data[1] # inBuf.data[3]
    /\ outBuf = inBuf

\* C15 (as claimed): applyDocumentMode leaves unmodified every pixel of a
\* block whose own brightness range (block max minus block min) is at most
\* 20, whatever the neighbouring blocks contain.
C15_FlatBlockUnmodified ==
    applied.fn = "document"
        => \A i \in 1..Len(inBuf.data) :
                RLe(locals[i].blockRange, RInt(RangeThreshold))
                    => outBuf.data[i] = inBuf.data[i]

\* the local range of pixel i exceeds 20: the pixel is stretched
Stretched(i) == RLt(RInt(RangeThreshold), RSub(locals[i].localMax, locals[i].localMin))

\* C16: in applyDocumentMode, wherever the local range exceeds 20, a channel
\* value above the local threshold min + range * whitePoint is written as a
\* value in [215,255], and one at or below it as a value in [0,215].
C16_PaperAndInkRanges ==
    applied.fn = "document"
        => \A i \in 1..Len(inBuf.data) : \A c \in 1..3 :
                Stretched(i) =>
                    IF RLt(locals[i].threshold, RInt(inBuf.data[i][c]))
                    THEN /\ RLe(RInt(215), assigned[i][c]) /\ RLe(assigned[i][c], RInt(255))
                         /\ outBuf.data[i][c] \in 215..255
                    ELSE /\ RLe(RInt(0), assigned[i][c]) /\ RLe(assigned[i][c], RInt(215))
                         /\ outBuf.data[i][c] \in 0..215

\* C16 witness: a stretched pixel with one channel above the threshold,
\* written below 255, and one channel below it, written between 0 and 215.
C16_Witness ==
    /\ applied.fn = "document"
    /\ \E i \in 1..Len(inBuf.data) : \E c, d \in 1..3 :
        /\ Stretched(i)
        /\ RLt(locals[i].threshold, RInt(inBuf.data[i][c]))
        /\ outBuf.data[i][c] \in 215..254
        /\ RLe(RInt(inBuf.data[i][d]), locals[i].threshold)
        /\ outBuf.data[i][d] \in 1..214

\* 1 + (target / localBrightness - 1) * strength
BlendedFactor(target, localBrightness, strength) ==
    RAdd(RInt(1), RMul(RSub(RDiv(target, localBrightness), RInt(1)), strength))

\* C17: in adaptiveLightingCorrection the factor of a pixel is
\* 1 + (target/localBrightness - 1) * strength limited to [0.5, 2], and what
\* is assigned to a channel v is never below v/2 nor above 2v.
C17_FactorLimited ==
    applied.fn = "adaptive"
        => \A i \in 1..Len(inBuf.data) :
            /\ RLt(RInt(0), locals[i].localBrightness)
                  => locals[i].factor =
                        RMax(Rat(1, 2), RMin(RInt(2),
                            BlendedFactor(locals[i].target, locals[i].localBrightness,
                                          applied.level)))
            /\ RLe(Rat(1, 2), locals[i].factor)
            /\ RLe(locals[i].factor, RInt(2))
            /\ \A c \in 1..3 :
                /\ assigned[i][c] = RMin(RInt(255), RMul(RInt(inBuf.data[i][c]), locals[i].factor))
                /\ RLe(Rat(inBuf.data[i][c], 2), assigned[i][c])
                /\ RLe(assigned[i][c], RInt(2 * inBuf.data[i][c]))

\* C17 witness: a dark pixel whose blended factor would be above 2 got the
\* factor 2, and its channels were doubled.
C17_Witness ==
    /\ applied.fn = "adaptive"
    /\ \E i \in 1..Len(inBuf.data) :
        /\ RLt(RInt(0), locals[i].localBrightness)
        /\ RLt(RInt(2), BlendedFactor(locals[i].target, locals[i].localBrightness,
                                      applied.level))
        /\ locals[i].factor = RInt(2)
        /\ inBuf.data[i] = <<10, 20, 30, 255>>
        /\ outBuf.data[i] = <<20, 40, 60, 255>>

\* C18: both normalizers and enhance leave the alpha byte of every pixel as
\* it was.
C18_AlphaUntouched ==
    applied.fn \in {"adaptive", "document", "enhance", "enhanceZip"}
        => /\ Len(outBuf.data) = Len(inBuf.data)
           /\ \A i \in 1..Len(inBuf.data) : outBuf.data[i][4] = inBuf.data[i][4]

\* C18 witness: a half-transparent pixel whose R, G, B were rewritten by a
\* normalizer kept its alpha.
C18_Witness ==
    /\ applied.fn \in {"adaptive", "document"}
    /\ \E i \in 1..Len(inBuf.data) :
        /\ inBuf.data[i][4] = 128
        /\ outBuf.data[i][4] = 128
        /\ outBuf.data[i][1] # inBuf.data[i][1]

-----------------------------------------------------------------------------
(* Claims about sampling and degenerate quadrilaterals in rectify.         *)

\* C19: when the mapping loop runs, it raises no error; a pixel of the
\* intermediate buffer whose rounded source coordinate is outside the source
\* (sx < 0, sx >= width, sy < 0 or sy >= height) stays the zero pixel, any
\* other is the source pixel at that coordinate, and no index outside the
\* source data is read.
C19_OutOfBoundsSampling ==
    (applied.fn = "rectify" /\ Len(applied.corners) = 4
        /\ TempWidth(applied.corners) > 0 /\ TempHeight(applied.corners) > 0)
        => /\ rect.threw = "none"
           /\ Len(rect.temp.data) = Len(locals)
           /\ \A i \in 1..Len(locals) :
                LET l == locals[i]
                IN  IF l.sx < 0 \/ l.sx >= inBuf.w \/ l.sy < 0 \/ l.sy >= inBuf.h
                    THEN /\ ~l.copied
                         /\ rect.temp.data[i] = ZeroPixel
                    ELSE /\ l.copied
                         /\ l.srcIdx \in 0..(4 * Len(inBuf.data) - 4)
                         /\ rect.temp.data[i] = inBuf.data[l.sy * inBuf.w + l.sx + 1]

\* C19 witness: one pixel sampled one column past the source, on a row that
\* is not the last one, and stayed zero; another one was copied.
C19_Witness ==
    /\ applied.fn = "rectify"
    /\ rect.threw = "none"
    /\ \E i, j \in 1..Len(locals) :
        /\ locals[i].sx = inBuf.w
        /\ locals[i].sy \in 0..(inBuf.h - 2)
        /\ rect.temp.data[i] = ZeroPixel
        /\ locals[j].copied
        /\ rect.temp.data[j] # ZeroPixel

\* C20 (as claimed): for every four-point corner set, degenerate ones
\* included, applyPerspectiveCorrection raises no exception and returns a
\* canvas of the requested size.
C20_DegenerateQuadReturns ==
    (applied.fn = "rectify" /\ Len(applied.corners) = 4)
        => /\ rect.threw = "none"
           /\ rect.canvas.w = applied.outputWidth
           /\ rect.canvas.h = applied.outputHeight

\* C21: with the corners (0,0), (W,0), (W,H), (0,H) of a W x H source, the
\* intermediate buffer is W x H and equal to the source pixel by pixel, and
\* the canvas returned has the requested size.
C21_FullRectangleCopiesSource ==
    (applied.fn = "rectify" /\ applied.corners = FullRectangle(inBuf))
        => /\ rect.threw = "none"
           /\ rect.temp.w = inBuf.w
           /\ rect.temp.h = inBuf.h
           /\ \A x \in 0..(inBuf.w - 1) : \A y \in 0..(inBuf.h - 1) :
                PixelAt(rect.temp, x, y) = PixelAt(inBuf, x, y)
           /\ rect.canvas = [w |-> applied.outputWidth, h |-> applied.outputHeight]

\* C21 witness: a 2 x 2 source rectified with its full rectangle to the
\* default output size.
C21_Witness ==
    /\ applied.fn = "rectify"
    /\ applied.corners = FullRectangle(inBuf)
    /\ inBuf.w = 2
    /\ inBuf.h = 2
    /\ rect.temp.data = inBuf.data
    /\ rect.canvas.w = DefaultOutputWidth

-----------------------------------------------------------------------------
(* Claims about the normalizer inside processDocument.                     *)

\* the positions of the normalizer runs among the stages applied to a canvas
NormalizerRuns(ops) == { k \in 1..Len(ops) : ops[k].stage \in {"adaptive", "document"} }

\* C22: in every invocation at most one normalizer run is made, only when the
\* configuration enables it and only of the strategy that copy of
\* processDocument has; with the normalizer disabled the canvas enhance gets
\* is the rectified one, with no stage applied in between.
C22_OneNormalizer ==
    \A who \in Callers :
        LET call == calls[who]
            ops == call.canvas.ops
        IN  call.pc # "idle" =>
              /\ Cardinality(NormalizerRuns(ops)) <= 1
              /\ Cardinality({ k \in 1..Len(call.trace) : call.trace[k] = "normalize" }) <= 1
              /\ (NormalizerRuns(ops) # {} \/ \E k \in 1..Len(call.trace) : call.trace[k] = "normalize")
                    => NormalizerEnabled(call.variant, call.options)
              /\ \A k \in NormalizerRuns(ops) :
                    ops[k].stage = IF call.variant = "part_000" THEN "document" ELSE "adaptive"
              /\ (~NormalizerEnabled(call.variant, call.options) /\ call.pc \in {"encoding", "resolved"})
                    => /\ Len(ops) = 2
                       /\ ops[1].stage = "rectify"
                       /\ ops[2].stage = "enhance"

\* C22 witness: an invocation with the normalizer switched off was encoded
\* from a canvas that went through rectify and enhance only; the same copy
\* runs the normalizer when it is left on.
C22_Witness ==
    /\ calls["a"].pc = "resolved"
    /\ ~calls["a"].blob.null
    /\ calls["a"].variant = "ImageProcessor"
    /\ calls["a"].options = [adaptiveLighting |-> FALSE, documentMode |-> FALSE]
    /\ Len(calls["a"].blob.ops) = 2

\* C23 (as claimed): the block size and the strength (or white point) given
\* in the configuration of processDocument are the values the normalizer
\* runs with.
C23_NormalizerParametersPassedDown ==
    \A who \in Callers :
        LET call == calls[who]
            ops == call.canvas.ops
        IN  call.pc # "idle" =>
              \A k \in NormalizerRuns(ops) :
                /\ ops[k].blockSize = Option(call.options, "blockSize", ops[k].blockSize)
                /\ ops[k].stage = "adaptive"
                      => ops[k].level = Option(call.options, "lightingStrength", ops[k].level)
                /\ ops[k].stage = "document"
                      => ops[k].level = Option(call.options, "whitePoint", ops[k].level)

\* C27 (as claimed): adaptiveLightingCorrection called without options runs
\* with the defaults its documentation states, block size 32 and strength 0.7.
C27_DocumentedDefaults ==
    (applied.fn = "adaptive" /\ DOMAIN applied.options = {})
        => /\ applied.blockSize = 32
           /\ applied.level = Rat(7, 10)

-----------------------------------------------------------------------------
(* Claim about the block grid of the two normalizers.                      *)

\* e lies between the smallest and the largest of the four values
Between(e, four) ==
    /\ \E k \in 1..4 : RLe(four[k], e)
    /\ \E k \in 1..4 : RLe(e, four[k])

\* C26: in both normalizers, for every pixel, the cell read by the
\* interpolation has 0 <= bx0 <= bx1 <= blocksX-1, 0 <= by0 <= by1 <= blocksY-1
\* and weights tx, ty in [0,1]; every local estimate lies between the
\* smallest and largest of the four values read; a pixel before the first
\* block centre or at or past the last one reads the edge block on both sides.
C26_BlockGridInterpolation ==
    applied.fn \in {"adaptive", "document"}
        => \A i \in 1..Len(inBuf.data) :
            LET c == locals[i].cell
                nx == BlocksX(inBuf, applied.blockSize)
                ny == BlocksY(inBuf, applied.blockSize)
                x == (i - 1) % inBuf.w
                y == (i - 1) \div inBuf.w
            IN  /\ 0 <= c.bx0 /\ c.bx0 <= c.bx1 /\ c.bx1 <= nx - 1
                /\ 0 <= c.by0 /\ c.by0 <= c.by1 /\ c.by1 <= ny - 1
                /\ RLe(RInt(0), c.tx) /\ RLe(c.tx, RInt(1))
                /\ RLe(RInt(0), c.ty) /\ RLe(c.ty, RInt(1))
                /\ \A k \in 1..Len(locals[i].estimate) :
                        Between(locals[i].estimate[k], locals[i].read[k])
                /\ 2 * x < applied.blockSize => (c.bx0 = 0 /\ c.tx = RInt(0))
                /\ 2 * y < applied.blockSize => (c.by0 = 0 /\ c.ty = RInt(0))
                /\ 2 * x >= (2 * nx - 1) * applied.blockSize => (c.bx0 = nx - 1 /\ c.bx1 = nx - 1)
                /\ 2 * y >= (2 * ny - 1) * applied.blockSize => (c.by0 = ny - 1 /\ c.by1 = ny - 1)

\* C26 witness: a pixel interpolated half way between two different blocks,
\* its estimate strictly between their values, next to a pixel before the
\* first block centre.
C26_Witness ==
    /\ applied.fn = "adaptive"
    /\ applied.blockSize = 1
    /\ \E i \in 2..Len(inBuf.data) :
        /\ locals[i].cell.bx0 < locals[i].cell.bx1
        /\ locals[i].cell.tx = Rat(1, 2)
        /\ RLt(locals[i].read[1][1], locals[i].estimate[1])
        /\ RLt(locals[i].estimate[1], locals[i].read[1][2])
        /\ locals[1].cell.tx = RInt(0)

-----------------------------------------------------------------------------
\* a point lies in [0, width] x [0, height]
PointInImage(pt, width, height) ==
    /\ RLe(RInt(0), pt.x) /\ RLe(pt.x, RInt(width))
    /\ RLe(RInt(0), pt.y) /\ RLe(pt.y, RInt(height))

\* C25: getDefaultCorners(width, height, margin) returns exactly four points
\* in the order top-left, top-right, bottom-right, bottom-left, inset from
\* the image edges by width*margin horizontally and height*margin
\* vertically, with margin 0.05 when it is omitted; for a margin in [0, 0.5]
\* every point lies in [0,width] x [0,height], TL.x <= TR.x and TL.y <= BL.y.
C25_DefaultCorners ==
    cornerCall.called =>
        LET width == cornerCall.args[1]
            height == cornerCall.args[2]
            margin == IF Len(cornerCall.args) = 2 THEN Rat(5, 100) ELSE cornerCall.args[3]
            left == RMul(RInt(width), margin)
            top == RMul(RInt(height), margin)
            right == RSub(RInt(width), left)
            bottom == RSub(RInt(height), top)
            c == cornerCall.corners
        IN  /\ Len(c) = 4
            /\ c[1] = Pt(left, top) /\ c[2] = Pt(right, top)
            /\ c[3] = Pt(right, bottom) /\ c[4] = Pt(left, bottom)
            /\ (RLe(RInt(0), margin) /\ RLe(margin, Rat(1, 2))) =>
                    /\ \A i \in 1..4 : PointInImage(c[i], width, height)
                    /\ RLe(c[1].x, c[2].x)
                    /\ RLe(c[1].y, c[4].y)

\* getDefaultCorners was called without a margin for an image of positive
\* size, and inset the corners by a twentieth
C25_Witness ==
    /\ cornerCall.called
    /\ Len(cornerCall.args) = 2
    /\ cornerCall.args[1] = 4 /\ cornerCall.args[2] = 2
    /\ cornerCall.corners[1] = Pt(Rat(1, 5), Rat(1, 10))
    /\ cornerCall.corners[3] = Pt(Rat(19, 5), Rat(19, 10))

-----------------------------------------------------------------------------
\* what the invocation recorded in call does when it is the only one
Alone(call) == StartedCall(call.variant, DecodedImage, call.corners, call.options)

-----------------------------------------------------------------------------
\* C28: a photo selected by handleCapture stays pending until the user
\* cancels it or its own handleCropConfirm completes: the pending photo is
\* cleared only by a cancel (no confirm is in flight then) or by the
\* completion of the confirm that was started for that very photo, never by
\* the completion of a confirm started for an earlier one; and a confirm is
\* in flight exactly while isProcessing is set, so that no second one starts.
C28_PendingPhotoKept ==
    [][ /\ (pendingPhoto # NullFile /\ pendingPhoto' = NullFile) =>
                (confirm.pc = "idle" \/ confirm.photo = pendingPhoto)
        /\ (confirm.pc # "idle" /\ confirm'.pc # "idle") =>
                (confirm'.photo = confirm.photo /\ confirm'.pageNo = confirm.pageNo)
        /\ (confirm'.pc # "idle") = isProcessing' ]_vars

\* C29: the page list changes only in two ways: a successful
\* handleCropConfirm appends exactly one page at the end, and handleRemove(i)
\* deletes exactly the page at index i and keeps the order of the others;
\* cancel, failed processing, handleZip and handlePdf leave the list
\* unchanged, and the exports do not start while the list is empty.
C29_PageListFrame ==
    [][ /\ photos' # photos =>
            \/ /\ confirm.pc = "encoding" /\ confirm'.pc = "idle"
               /\ last'.outcome = "success"
               /\ Len(photos') = Len(photos) + 1
               /\ SubSeq(photos', 1, Len(photos)) = photos
               /\ ~photos'[Len(photos')].blob.null
            \/ /\ confirm' = confirm
               /\ \E index \in 1..Len(photos) : photos' = RemoveAt(photos, index)
        /\ ((isZipping' /\ ~isZipping) \/ (isPdfing' /\ ~isPdfing)) => Len(photos) > 0 ]_vars

-----------------------------------------------------------------------------
\* four corners, each within the natural size of the loaded image
FourCornersInImage(cs, img) ==
    /\ Len(cs) = 4
    /\ \A i \in 1..4 : PointInImage(cs[i], img.naturalWidth, img.naturalHeight)

\* C30: in DocumentCropEditor, once the image has loaded and after any
\* sequence of corner drags and edge drags, the editor holds exactly four
\* corners and each has 0 <= x <= naturalWidth and 0 <= y <= naturalHeight;
\* onConfirm is called only with a four-point corner set; and a pointer move
\* with no active handle changes no corner.
C30_EditorCornersInImage ==
    /\ editor.image.loaded => FourCornersInImage(editor.corners, editor.image)
    /\ editor.confirmed.called =>
            /\ Len(editor.confirmed.corners) = 4
            /\ editor.confirmed.corners = editor.corners
    /\ (editor.lastMove.made /\ editor.lastMove.handle.type = "none") =>
            editor.corners = editor.lastMove.before

\* in the second version a corner was dragged towards a pointer outside the
\* image and then an edge: the corners have moved off their defaults and
\* one of them lies on the border of the image
C30_Witness ==
    /\ editor.version = "v2"
    /\ editor.image.loaded
    /\ editor.moves = 2
    /\ editor.lastMove.handle.type = "edge"
    /\ editor.lastMove.before #
            getDefaultCorners(editor.image.naturalWidth, editor.image.naturalHeight, Rat(1, 20))
    /\ editor.corners # editor.lastMove.before
    /\ \E i \in 1..4 : editor.corners[i].y = RInt(editor.image.naturalHeight)

=============================================================================
